---- MODULE Spec2Model ----
(***************************************************************************)
(* Model of package version (src/version.go): six package-level strings    *)
(* that may be set by ldflags, and Details(), which fills the empty ones   *)
(* from the environment and formats the sentence.                          *)
(*                                                                         *)
(* A Go string is a TLA+ string; \o is concatenation.  A file path is kept *)
(* as the sequence of its separators and elements so that filepath.Base    *)
(* can be computed on it.  Every statement of Details() is one step of the *)
(* calling goroutine, so that goroutines interleave between statements.    *)
(***************************************************************************)
EXTENDS Integers, Sequences, FiniteSets, TLC

VARIABLES
    executable, version, builtBy, commit, builtWith, buildDate, \* the globals
    env,        \* what the lookups answer in this process (fixed)
    pc,         \* per goroutine: the statement of Details() it is at
    exePath,    \* per goroutine: local exePath
    buildInfo,  \* per goroutine: local buildInfo ("nil" or "info")
    index,      \* per goroutine: loop index over buildInfo.Settings
    ret,        \* per goroutine: the string last returned
    prev,       \* per goroutine: <<>> or <<the string returned by the call before>>
    start,      \* per goroutine: the globals when the current call began
    did,        \* per goroutine: lookups made by the current call
    lookups,    \* lookups made since the process started
    ncalls,     \* calls of Details() begun
    preset      \* the globals as the linker left them

globals == <<executable, version, builtBy, commit, builtWith, buildDate>>
locals == <<exePath, buildInfo, index>>
history == <<prev, start, did, lookups, ncalls, preset>>
vars == <<globals, env, pc, locals, ret, history>>

\* ---- bounds of the model
MaxCalls == 2
MaxSettings == 2
NumGoroutines == 2

\* src/version.go:28
unknownValue == "unknown"

\* ---- strings.ToLower and strings.EqualFold on the strings that occur
Lower ==
    [s \in {"vcs.revision", "vcs.modified", "GOOS", "true", "True", "false", "linux"} |->
        CASE s = "GOOS" -> "goos"
          [] s = "True" -> "true"
          [] OTHER -> s]

ToLower(s) == Lower[s]

EqualFold(s, t) == ToLower(s) = ToLower(t)

\* ---- filepath.Base on a path given as its separators and elements
IsPathSeparator(c) == c = "/"

RECURSIVE StripTrailing(_)
StripTrailing(path) ==
    IF Len(path) > 0 /\ IsPathSeparator(path[Len(path)])
    THEN StripTrailing(SubSeq(path, 1, Len(path) - 1))
    ELSE path

RECURSIVE LastSeparator(_, _)
LastSeparator(path, i) ==
    IF i >= 1 /\ ~IsPathSeparator(path[i]) THEN LastSeparator(path, i - 1) ELSE i

RECURSIVE Join(_)
Join(path) == IF path = <<>> THEN "" ELSE Head(path) \o Join(Tail(path))

Base(path) ==
    IF path = <<>> THEN "."
    ELSE LET stripped == StripTrailing(path)
             i == LastSeparator(stripped, Len(stripped))
             last == IF i >= 1 THEN SubSeq(stripped, i + 1, Len(stripped)) ELSE stripped
         IN IF last = <<>> THEN "/" ELSE Join(last)

\* ---- time.Time.Format(time.RFC3339)
Digit == <<"0", "1", "2", "3", "4", "5", "6", "7", "8", "9">>

Pad2(n) == Digit[((n \div 10) % 10) + 1] \o Digit[(n % 10) + 1]

Pad4(n) == Pad2(n \div 100) \o Pad2(n % 100)

Zone(off) ==
    IF off = 0 THEN "Z"
    ELSE (IF off < 0 THEN "-" ELSE "+")
         \o Pad2((IF off < 0 THEN -off ELSE off) \div 60) \o ":"
         \o Pad2((IF off < 0 THEN -off ELSE off) % 60)

FormatRFC3339(t) ==
    Pad4(t.year) \o "-" \o Pad2(t.month) \o "-" \o Pad2(t.day) \o "T"
    \o Pad2(t.hour) \o ":" \o Pad2(t.minute) \o ":" \o Pad2(t.second) \o Zone(t.offset)

\* a Sprintf whose arguments were passed in another order
SprintfMisordered(e, v, by, c, w, d) ==
    e \o " " \o v \o " built by " \o by \o " from commit " \o w
      \o " with " \o c \o " at " \o d \o "."

\* ---- fmt.Sprintf("%s %s built by %s from commit %s with %s at %s.", ...)
Sprintf(e, v, by, c, w, d) ==
    e \o " " \o v \o " built by " \o by \o " from commit " \o c
      \o " with " \o w \o " at " \o d \o "."

\* ---- the environment: what each lookup can answer
ExePaths ==
    { <<"/", "usr", "/", "local", "/", "bin", "/", "myapp">>, <<"/", "version.test">> }

ModTimes ==
    { [year |-> 2023, month |-> 1, day |-> 1, hour |-> 0, minute |-> 0, second |-> 0,
       offset |-> 0],
      [year |-> 2021, month |-> 11, day |-> 5, hour |-> 19, minute |-> 8, second |-> 47,
       offset |-> -330] }

Entries ==
    { [Key |-> "vcs.revision", Value |-> "abc123"],
      [Key |-> "vcs.modified", Value |-> "True"],
      [Key |-> "vcs.modified", Value |-> "false"],
      [Key |-> "GOOS", Value |-> "linux"] }

\* debug.BuildInfo.Settings: the toolchain writes each key at most once
SettingsLists ==
    UNION { { s \in [1..n -> Entries] :
                \A i, j \in 1..n : i # j => s[i].Key # s[j].Key } : n \in 0..MaxSettings }

Envs ==
    { e \in [ exeOK : BOOLEAN, path : ExePaths,
              statOK : BOOLEAN, modTime : ModTimes,
              userOK : BOOLEAN, Username : {"bob"},
              biOK : BOOLEAN, GoVersion : {"go1.17"}, Settings : SettingsLists ] :
        \* one representative of the answers that are never read
        /\ ~e.exeOK => e.path = <<"/", "version.test">> /\ ~e.statOK
        /\ ~e.statOK => e.modTime.offset = 0
        /\ ~e.biOK => e.Settings = <<>> }

Fields ==
    [ executable |-> executable, version |-> version, builtBy |-> builtBy,
      commit |-> commit, builtWith |-> builtWith, buildDate |-> buildDate ]

FieldNames == {"executable", "version", "builtBy", "commit", "builtWith", "buildDate"}

NoLookups == [exe |-> FALSE, bi |-> FALSE, user |-> FALSE, stat |-> FALSE]

\* ---- what -ldflags "-X ..." can have put in each global (src/version.go:33-58)
Presets ==
    [ executable : {"", "app"}, version : {"", "v1.2.3"}, builtBy : {"", "alice"},
      commit : {"", "deadbeef"}, builtWith : {"", "go1.21"},
      buildDate : {"", "2023-01-01T00:00:00Z"} ]

InitWith(goroutines) ==
    /\ preset \in Presets
    /\ executable = preset.executable
    /\ version = preset.version
    /\ builtBy = preset.builtBy
    /\ commit = preset.commit
    /\ builtWith = preset.builtWith
    /\ buildDate = preset.buildDate
    /\ env \in Envs
    /\ pc = [p \in goroutines |-> "idle"]
    /\ exePath = [p \in goroutines |-> <<>>]
    /\ buildInfo = [p \in goroutines |-> "nil"]
    /\ index = [p \in goroutines |-> 0]
    /\ ret = [p \in goroutines |-> ""]
    /\ prev = [p \in goroutines |-> <<>>]
    /\ start = [p \in goroutines |-> preset]
    /\ did = [p \in goroutines |-> NoLookups]
    /\ lookups = [exe |-> 0, bi |-> 0, user |-> 0, stat |-> 0]
    /\ ncalls = 0

\* one goroutine calls Details(), one call after the other
Init == InitWith({1})

\* an unrecovered panic ends the process
Running == \A q \in DOMAIN pc : pc[q] # "panicked"

At(p, label) == Running /\ pc[p] = label

Goto(p, label) == pc' = [pc EXCEPT ![p] = label]

Looked(p, what) ==
    /\ did' = [did EXCEPT ![p][what] = TRUE]
    /\ lookups' = [lookups EXCEPT ![what] = @ + 1]

\* func Details() string: entry, locals zeroed (lines 61-66)
Call(p) ==
    /\ Running
    /\ pc[p] \in {"idle", "returned"}
    /\ ncalls < MaxCalls
    /\ ncalls' = ncalls + 1
    /\ exePath' = [exePath EXCEPT ![p] = <<>>]
    /\ buildInfo' = [buildInfo EXCEPT ![p] = "nil"]
    /\ index' = [index EXCEPT ![p] = 0]
    /\ prev' = [prev EXCEPT ![p] = IF pc[p] = "returned" THEN <<ret[p]>> ELSE <<>>]
    /\ start' = [start EXCEPT ![p] = Fields]
    /\ did' = [did EXCEPT ![p] = NoLookups]
    /\ Goto(p, "L69")
    /\ UNCHANGED <<globals, env, ret, lookups, preset>>

\* lines 69-76: exePath, err = os.Executable()
ResolveExePath(p) ==
    /\ At(p, "L69")
    /\ IF executable = "" \/ buildDate = ""
       THEN /\ exePath' = [exePath EXCEPT ![p] =
                              IF env.exeOK THEN env.path ELSE <<unknownValue>>]
            /\ Looked(p, "exe")
       ELSE UNCHANGED <<exePath, did, lookups>>
    /\ Goto(p, "L78")
    /\ UNCHANGED <<globals, env, buildInfo, index, ret, prev, start, ncalls, preset>>

\* lines 78-80: buildInfo, biOK = debug.ReadBuildInfo()
ReadBuildInfo(p) ==
    /\ At(p, "L78")
    /\ IF commit = "" \/ builtWith = ""
       THEN /\ buildInfo' = [buildInfo EXCEPT ![p] = IF env.biOK THEN "info" ELSE "nil"]
            /\ Looked(p, "bi")
            /\ Goto(p, "L82")
       ELSE /\ UNCHANGED <<buildInfo, did, lookups>>
            /\ Goto(p, "L92")
    /\ UNCHANGED <<globals, env, exePath, index, ret, prev, start, ncalls, preset>>

\* biOK is buildInfo != nil (runtime/debug returns nil, false or info, true)
biOK(p) == buildInfo[p] # "nil"

\* lines 82-84
CommitUnknown(p) ==
    /\ At(p, "L82")
    /\ commit' = IF ~biOK(p) /\ commit = "" THEN unknownValue ELSE commit
    /\ Goto(p, "L86")
    /\ UNCHANGED <<executable, version, builtBy, builtWith, buildDate,
                   env, locals, ret, history>>

\* lines 86-88: the branch tests builtWith and assigns commit
BuiltWithUnknown(p) ==
    /\ At(p, "L86")
    /\ commit' = IF ~biOK(p) /\ builtWith = "" THEN unknownValue ELSE commit
    /\ Goto(p, "L92")
    /\ UNCHANGED <<executable, version, builtBy, builtWith, buildDate,
                   env, locals, ret, history>>

\* lines 92-98
SetExecutable(p) ==
    /\ At(p, "L92")
    /\ executable' =
          IF executable = ""
          THEN IF exePath[p] # <<unknownValue>> THEN Base(exePath[p]) ELSE unknownValue
          ELSE executable
    /\ Goto(p, "L100")
    /\ UNCHANGED <<version, builtBy, commit, builtWith, buildDate,
                   env, locals, ret, history>>

\* lines 100-102
SetVersion(p) ==
    /\ At(p, "L100")
    /\ version' = IF version = "" THEN "v0.0.0-" \o unknownValue ELSE version
    /\ Goto(p, "L104")
    /\ UNCHANGED <<executable, builtBy, commit, builtWith, buildDate,
                   env, locals, ret, history>>

\* a SetBuiltBy that looks the user up before testing builtBy
SetBuiltByEager(p) ==
    /\ At(p, "L104")
    /\ builtBy' = IF builtBy # "" THEN builtBy
                  ELSE IF env.userOK THEN env.Username ELSE unknownValue
    /\ Looked(p, "user")
    /\ Goto(p, "L113")
    /\ UNCHANGED <<executable, version, commit, builtWith, buildDate,
                   env, locals, ret, prev, start, ncalls, preset>>

\* lines 104-111: u, err := user.Current()
SetBuiltBy(p) ==
    /\ At(p, "L104")
    /\ IF builtBy = ""
       THEN /\ builtBy' = IF env.userOK THEN env.Username ELSE unknownValue
            /\ Looked(p, "user")
       ELSE UNCHANGED <<builtBy, did, lookups>>
    /\ Goto(p, "L113")
    /\ UNCHANGED <<executable, version, commit, builtWith, buildDate,
                   env, locals, ret, prev, start, ncalls, preset>>

\* lines 113-114: if commit == "" { for index := range buildInfo.Settings
\* (buildInfo.Settings on a nil buildInfo is a nil pointer dereference)
CommitCheck(p) ==
    /\ At(p, "L113")
    /\ IF commit = ""
       THEN IF buildInfo[p] = "nil"
            THEN Goto(p, "panicked") /\ UNCHANGED index
            ELSE Goto(p, "L115") /\ index' = [index EXCEPT ![p] = 1]
       ELSE Goto(p, "L126") /\ UNCHANGED index
    /\ UNCHANGED <<globals, env, exePath, buildInfo, ret, history>>

\* a loop body that appends the revision (commit += Value)
SettingAppended(entry, c) ==
    CASE ToLower(entry.Key) = "vcs.revision" -> c \o entry.Value
      [] ToLower(entry.Key) = "vcs.modified" ->
            IF EqualFold(entry.Value, "true") THEN c \o "-dirty" ELSE c
      [] OTHER -> c

\* lines 115-122: the body of the loop on one entry, as the new value of commit
Setting(entry, c) ==
    CASE ToLower(entry.Key) = "vcs.revision" -> entry.Value \o c
      [] ToLower(entry.Key) = "vcs.modified" ->
            IF EqualFold(entry.Value, "true") THEN c \o "-dirty" ELSE c
      [] OTHER -> c

\* lines 114-123: one iteration of the loop, or its end
CommitLoop(p) ==
    /\ At(p, "L115")
    /\ IF index[p] <= Len(env.Settings)
       THEN /\ commit' = Setting(env.Settings[index[p]], commit)
            /\ index' = [index EXCEPT ![p] = @ + 1]
            /\ UNCHANGED pc
       ELSE /\ Goto(p, "L126")
            /\ UNCHANGED <<commit, index>>
    /\ UNCHANGED <<executable, version, builtBy, builtWith, buildDate,
                   env, exePath, buildInfo, ret, history>>

\* lines 126-128: buildInfo.GoVersion on a nil buildInfo is a nil pointer dereference
SetBuiltWith(p) ==
    /\ At(p, "L126")
    /\ IF builtWith = ""
       THEN IF buildInfo[p] = "nil"
            THEN Goto(p, "panicked") /\ UNCHANGED builtWith
            ELSE Goto(p, "L130") /\ builtWith' = env.GoVersion
       ELSE Goto(p, "L130") /\ UNCHANGED builtWith
    /\ UNCHANGED <<executable, version, builtBy, commit, buildDate,
                   env, locals, ret, history>>

\* lines 130-131
SetBuildDate(p) ==
    /\ At(p, "L130")
    /\ IF buildDate = ""
       THEN buildDate' = unknownValue /\ Goto(p, "L133")
       ELSE UNCHANGED buildDate /\ Goto(p, "L141")
    /\ UNCHANGED <<executable, version, builtBy, commit, builtWith,
                   env, locals, ret, history>>

\* a StatBuildDate that stats whatever exePath holds
StatBuildDateUnguarded(p) ==
    /\ At(p, "L133")
    /\ buildDate' = IF exePath[p] # <<unknownValue>> /\ env.statOK
                    THEN FormatRFC3339(env.modTime) ELSE buildDate
    /\ Looked(p, "stat")
    /\ Goto(p, "L141")
    /\ UNCHANGED <<executable, version, builtBy, commit, builtWith,
                   env, locals, ret, prev, start, ncalls, preset>>

\* a StatBuildDate that does not test err
StatBuildDateErrIgnored(p) ==
    /\ At(p, "L133")
    /\ IF exePath[p] # <<unknownValue>>
       THEN /\ buildDate' = FormatRFC3339(env.modTime)
            /\ Looked(p, "stat")
       ELSE UNCHANGED <<buildDate, did, lookups>>
    /\ Goto(p, "L141")
    /\ UNCHANGED <<executable, version, builtBy, commit, builtWith,
                   env, locals, ret, prev, start, ncalls, preset>>

\* lines 133-138: fi, err := os.Stat(exePath)
StatBuildDate(p) ==
    /\ At(p, "L133")
    /\ IF exePath[p] # <<unknownValue>>
       THEN /\ buildDate' = IF env.statOK THEN FormatRFC3339(env.modTime) ELSE buildDate
            /\ Looked(p, "stat")
       ELSE UNCHANGED <<buildDate, did, lookups>>
    /\ Goto(p, "L141")
    /\ UNCHANGED <<executable, version, builtBy, commit, builtWith,
                   env, locals, ret, prev, start, ncalls, preset>>

\* lines 141-142
Return(p) ==
    /\ At(p, "L141")
    /\ ret' = [ret EXCEPT ![p] =
                  Sprintf(executable, version, builtBy, commit, builtWith, buildDate)]
    /\ Goto(p, "returned")
    /\ UNCHANGED <<globals, env, locals, history>>

Next ==
    \/ \E p \in DOMAIN pc : Call(p)
    \/ \E p \in DOMAIN pc : ResolveExePath(p)
    \/ \E p \in DOMAIN pc : ReadBuildInfo(p)
    \/ \E p \in DOMAIN pc : CommitUnknown(p)
    \/ \E p \in DOMAIN pc : BuiltWithUnknown(p)
    \/ \E p \in DOMAIN pc : SetExecutable(p)
    \/ \E p \in DOMAIN pc : SetVersion(p)
    \/ \E p \in DOMAIN pc : SetBuiltBy(p)
    \/ \E p \in DOMAIN pc : CommitCheck(p)
    \/ \E p \in DOMAIN pc : CommitLoop(p)
    \/ \E p \in DOMAIN pc : SetBuiltWith(p)
    \/ \E p \in DOMAIN pc : SetBuildDate(p)
    \/ \E p \in DOMAIN pc : StatBuildDate(p)
    \/ \E p \in DOMAIN pc : Return(p)

Spec == Init /\ [][Next]_vars

\* several goroutines call Details() with nothing to order them; at most commit
\* was set by the linker, and the binary is the test binary built at UTC
InitConc ==
    /\ InitWith(1..NumGoroutines)
    /\ \A f \in FieldNames \ {"commit"} : preset[f] = ""
    /\ env.path = <<"/", "version.test">>
    /\ env.modTime.offset = 0

SpecConc == InitConc /\ [][Next]_vars

(***************************************************************************)
(* The properties of Details()                                             *)
(***************************************************************************)
Goroutines == DOMAIN pc

InCall(p) == pc[p] \notin {"idle", "returned", "panicked"}

AllSet(fields) == \A f \in FieldNames : fields[f] # ""

RevisionEntries == { i \in 1..Len(env.Settings) : env.Settings[i].Key = "vcs.revision" }

DirtyEntries ==
    { i \in 1..Len(env.Settings) :
        /\ env.Settings[i].Key = "vcs.modified"
        /\ env.Settings[i].Value \in {"true", "True"} }

\* C1: once a field is non-empty (set by the linker or filled by Details()), no
\* later step of any call of Details() changes its value.
C1_PopulatedNeverOverwritten ==
    [][\A f \in FieldNames : Fields[f] # "" => Fields'[f] = Fields[f]]_vars

\* C2: Details() never fails: whatever is preset and whichever lookups fail, no
\* call ends in a panic.
C2_DetailsNeverFails == \A p \in Goroutines : pc[p] # "panicked"

\* C3: with all six fields preset, Details() returns
\* "<executable> <version> built by <builtBy> from commit <commit> with
\* <builtWith> at <buildDate>." made of the preset values, whatever the lookups
\* would have answered.
C3_AllPresetVerbatim ==
    \A p \in Goroutines :
        pc[p] = "returned" /\ AllSet(preset) =>
            /\ ret[p] = preset.executable \o " " \o preset.version \o " built by "
                        \o preset.builtBy \o " from commit " \o preset.commit \o " with "
                        \o preset.builtWith \o " at " \o preset.buildDate \o "."
            /\ ret[p] = "app v1.2.3 built by alice from commit deadbeef with go1.21 at 2023-01-01T00:00:00Z."

C3_Witness ==
    \E p \in Goroutines :
        /\ pc[p] = "returned" /\ AllSet(preset)
        /\ env.exeOK /\ env.statOK /\ env.userOK /\ env.biOK /\ RevisionEntries # {}

\* C4: a call looks nothing up for a field that was set when it began: the
\* executable path only if executable or buildDate was empty, build info only if
\* commit or builtWith was empty, the user only if builtBy was empty, the stat
\* only if buildDate was empty; with all six set it looks nothing up and leaves
\* the six fields as they were.
C4_NoLookupForSetField ==
    \A p \in Goroutines :
        /\ did[p].exe => start[p].executable = "" \/ start[p].buildDate = ""
        /\ did[p].bi => start[p].commit = "" \/ start[p].builtWith = ""
        /\ did[p].user => start[p].builtBy = ""
        /\ did[p].stat => start[p].buildDate = ""
        /\ AllSet(start[p]) => did[p] = NoLookups /\ Fields = start[p]

C4_Witness ==
    \E p \in Goroutines :
        /\ pc[p] = "returned"
        /\ start[p].builtBy # "" /\ start[p].executable # "" /\ start[p].buildDate = ""
        /\ did[p].exe /\ did[p].stat /\ ~did[p].user

\* C5: a second call of Details() in succession returns the string the first
\* returned and makes no lookup.
C5_SecondCallIdempotent ==
    \A p \in Goroutines :
        pc[p] = "returned" /\ prev[p] # <<>> =>
            ret[p] = prev[p][1] /\ did[p] = NoLookups

\* C6: every returned sentence has a non-empty value in each of its six
\* positions, and the commit position is "unknown" when commit was unset and no
\* revision can be derived.
C6_CompleteSentence ==
    \A p \in Goroutines :
        pc[p] = "returned" =>
            /\ AllSet(Fields)
            /\ start[p].commit = "" /\ (~env.biOK \/ RevisionEntries = {})
                  => commit = unknownValue

\* C7: when the executable path cannot be resolved and the call began with
\* executable and buildDate unset, the binary is never stat'ed, neither field
\* ever holds a derived value, and at the return both are "unknown".
C7_UnresolvedPathBothUnknown ==
    \A p \in Goroutines :
        ~env.exeOK /\ start[p].executable = "" /\ start[p].buildDate = "" =>
            /\ ~did[p].stat
            /\ executable \in {"", unknownValue}
            /\ buildDate \in {"", unknownValue}
            /\ pc[p] = "returned" =>
                  executable = unknownValue /\ buildDate = unknownValue

C7_Witness ==
    \E p \in Goroutines :
        /\ pc[p] = "returned" /\ did[p].exe
        /\ ~env.exeOK /\ start[p].executable = "" /\ start[p].buildDate = ""

\* C8: when the call began with commit unset and build info has one vcs.revision
\* entry R, the commit at the return is R followed by "-dirty" if a vcs.modified
\* entry with a true value is among the settings and R otherwise, in whichever
\* order the entries come.
C8_CommitFromRevision ==
    \A p \in Goroutines :
        pc[p] = "returned" /\ start[p].commit = "" /\ env.biOK
          /\ Cardinality(RevisionEntries) = 1 =>
            LET R == env.Settings[CHOOSE i \in RevisionEntries : TRUE].Value
            IN commit = IF DirtyEntries # {} THEN R \o "-dirty" ELSE R

C8_Witness ==
    \E p \in Goroutines :
        /\ pc[p] = "returned" /\ start[p].commit = ""
        /\ env.Settings = << [Key |-> "vcs.modified", Value |-> "True"],
                             [Key |-> "vcs.revision", Value |-> "abc123"] >>
        /\ commit = "abc123-dirty"

\* C9: goroutines whose first calls of Details() overlap do not repeat a lookup,
\* and commit never holds more than a sequential call would put in it (the
\* revision once, "-dirty" once).
C9_ConcurrentFirstCallsGuarded ==
    /\ (\A p \in Goroutines : InCall(p)) =>
          \A w \in DOMAIN lookups : lookups[w] <= 1
    /\ preset.commit = "" /\ env.biOK /\ Cardinality(RevisionEntries) = 1 =>
          LET R == env.Settings[CHOOSE i \in RevisionEntries : TRUE].Value
          IN commit \in {"", "-dirty", R, R \o "-dirty"}

\* C10: when the call began with buildDate unset, a preset executable keeps its
\* value throughout, and at the return the executable path has been asked for
\* and buildDate is the RFC3339 modification time exactly when the path was
\* resolved and the stat succeeded, and "unknown" otherwise.
C10_BuildDateFromModTime ==
    \A p \in Goroutines :
        start[p].buildDate = "" =>
            /\ start[p].executable # "" => executable = start[p].executable
            /\ pc[p] = "returned" =>
                  /\ did[p].exe
                  /\ did[p].stat = env.exeOK
                  /\ buildDate =
                        IF env.exeOK /\ env.statOK
                        THEN IF env.modTime.offset = 0 THEN "2023-01-01T00:00:00Z"
                             ELSE "2021-11-05T19:08:47-05:30"
                        ELSE unknownValue

C10_Witness ==
    \E p \in Goroutines :
        /\ pc[p] = "returned" /\ start[p].buildDate = "" /\ start[p].executable = "app"
        /\ executable = "app" /\ did[p].stat
        /\ buildDate = "2021-11-05T19:08:47-05:30"

====
